---- MODULE Spec2Model ----
(***************************************************************************)
(* A model of segregation/network/network.py: the four operations          *)
(* get_osm_network, calc_access, compute_travel_cost_matrix and            *)
(* project_network, together with the parts of pandana.Network, pandas and *)
(* geopandas whose behaviour the operations rely on.                       *)
(*                                                                         *)
(* Coordinates are integers.  A coordinate reference system (CRS) is a     *)
(* name; changing CRS moves a coordinate by the difference of the two      *)
(* systems' origins (false easting / northing), so that the same place has *)
(* different numbers in different systems.                                 *)
(***************************************************************************)
EXTENDS Integers, Sequences, FiniteSets, TLC

\* ------------------------------------------------------------------ bounds
MaxNodes == 3       \* nodes of a network
MaxGeoms == 2       \* rows of an input geodataframe
MaxCalls == 2       \* calc_access calls against one network

\* ------------------------------------------------------------- small helpers
Range(s) == {s[i] : i \in DOMAIN s}

Min2(a, b) == IF a <= b THEN a ELSE b

SetMin(S) == CHOOSE m \in S : \A x \in S : m <= x

RECURSIVE SumSeq(_)
SumSeq(s) == IF s = <<>> THEN 0 ELSE Head(s) + SumSeq(Tail(s))

SeqsUpTo(S, lo, hi) == UNION {[1..n -> S] : n \in lo..hi}

\* Variant: only None counts as false (a test "is None").
FalsyNoneOnly(v) == v = "None"

\* Python truthiness of the values the code tests: None (written "None") and
\* the empty string are false, every other string is true.
Falsy(v) == v \in {"None", ""}

\* -------------------------------------------------------------------- CRS
Geographic == {"EPSG:4326", "EPSG:4269"}

Projected == {"EPSG:32611", "EPSG:3857"}

CRSs == Geographic \cup Projected

\* crs.is_geographic
is_geographic(crs) == crs \in Geographic

\* Where the origin of a CRS lies, in the units of EPSG:4326.
OriginX(crs) ==
    CASE crs = "EPSG:4326" -> 0
      [] crs = "EPSG:4269" -> 1
      [] crs = "EPSG:32611" -> 0 - 50
      [] crs = "EPSG:3857" -> 0 - 20

OriginY(crs) ==
    CASE crs = "EPSG:4326" -> 0
      [] crs = "EPSG:4269" -> 0
      [] crs = "EPSG:32611" -> 0 - 10
      [] crs = "EPSG:3857" -> 0 - 30

\* GeoSeries.to_crs on one coordinate pair.
to_crs(p, input_crs, output_crs) ==
    [x |-> p.x + OriginX(input_crs) - OriginX(output_crs),
     y |-> p.y + OriginY(input_crs) - OriginY(output_crs)]

\* GeoDataFrame.estimate_utm_crs
estimate_utm_crs == "EPSG:32611"

\* ---------------------------------------------------------- pandana.Network
ImpedanceSets == {<<"distance">>, <<"distance", "time">>}

VarNames == {"a", "b"}

NodeIds == 1..MaxNodes

\* The edges a network may have: the first few edges of the ring
\* 1 -> 2 -> ... -> n -> 1, whose edges cost 1 or 2.
RingEdge(i) ==
    [from |-> i, to |-> (i % MaxNodes) + 1,
     w |-> [m \in {"distance", "time"} |->
               IF m = "distance" THEN 1 + (i % 2) ELSE 3 - (i % 2)]]

EdgeSets == {{RingEdge(i) : i \in 1..n} : n \in NodeIds}

\* Node i lies at x = 2 * (i - 1), y = 0.
NodePos(i) == [x |-> 2 * (i - 1), y |-> 0]

\* The cost pandana reports for a pair with no path.
Unreachable == 4294967

\* The arcs the routing engine follows: every edge, and its reverse when
\* the network is two-way; the cost is the first impedance.
Arcs(edges_df, impedance_names, twoway) ==
    LET imp == impedance_names[1]
        fwd == {<<e.from, e.to, e.w[imp]>> : e \in edges_df}
        bwd == {<<e.to, e.from, e.w[imp]>> : e \in edges_df}
    IN IF edges_df = {} THEN {} ELSE IF twoway THEN fwd \cup bwd ELSE fwd

\* Cheapest cost from a to b over paths of at most k arcs.
RECURSIVE PathCost(_, _, _, _)
PathCost(arcs, a, b, k) ==
    IF a = b THEN 0
    ELSE IF k = 0 THEN Unreachable
    ELSE LET into == {r \in arcs : r[2] = b}
             via == {Min2(Unreachable, PathCost(arcs, a, r[1], k - 1) + r[3]) : r \in into}
         IN IF via = {} THEN Unreachable ELSE SetMin(via)

\* pdna.Network(node_x, node_y, edge_from, edge_to, edge_weights, twoway):
\* a new network with no variable attached and nothing precomputed.  The
\* constructor prepares the routing engine, kept here as the table of
\* shortest-path costs between the nodes.
Network(nodes_df, edges_df, impedance_names, twoway) ==
    LET edges == {[from |-> e.from, to |-> e.to,
                   w |-> [m \in Range(impedance_names) |-> e.w[m]]] : e \in edges_df}
        arcs == Arcs(edges, impedance_names, twoway)
    IN [nodes_df |-> nodes_df,
        edges_df |-> edges,
        impedance_names |-> impedance_names,
        twoway |-> twoway,
        costs |-> [a \in DOMAIN nodes_df |-> [b \in DOMAIN nodes_df |->
                      PathCost(arcs, a, b, Len(nodes_df) - 1)]],
        vars |-> [v \in VarNames |-> <<>>],
        variable_names |-> {},
        dmsradius |-> 0]

NetworksWith(impedances) ==
    {Network([i \in NodeIds |-> NodePos(i)], E, imp, tw) :
        E \in EdgeSets, imp \in impedances, tw \in BOOLEAN}

Networks == NetworksWith(ImpedanceSets)

\* Network.node_ids: the index of nodes_df.
node_ids(net) == [i \in 1..Len(net.nodes_df) |-> i]

\* The shortest-path cost between two nodes.
ShortestCost(net, a, b) == net.costs[a][b]

\* Network.get_node_ids on one centroid: the nodes nearest to it (the
\* spatial index returns one of them).
NearestNodes(net, p) ==
    LET d2(i) == (net.nodes_df[i].x - p.x) * (net.nodes_df[i].x - p.x)
                 + (net.nodes_df[i].y - p.y) * (net.nodes_df[i].y - p.y)
        ids == DOMAIN net.nodes_df
    IN {i \in ids : \A j \in ids : d2(i) <= d2(j)}

\* Network.get_node_ids on a column of centroids: every result it may give.
get_node_ids(net, pts) ==
    {ids \in [DOMAIN pts -> DOMAIN net.nodes_df] :
        \A k \in DOMAIN pts : ids[k] \in NearestNodes(net, pts[k])}

\* Network.precompute(distance)
precompute(net, distance) == [net EXCEPT !.dmsradius = distance]

\* Network.set(node_ids, variable, name): the values replace whatever was
\* attached under that name; several values may sit on one node.
set(net, ids, variable, name) ==
    [net EXCEPT !.vars[name] = [k \in DOMAIN ids |-> [node |-> ids[k], value |-> variable[k]]],
                !.variable_names = @ \cup {name}]

\* The nodes in range of src with their distances: from the precomputed
\* table when it covers the radius, else by a fresh range query.
InRange(net, src, radius) ==
    LET table == {<<m, ShortestCost(net, src, m)>> : m \in DOMAIN net.nodes_df}
        within(r) == {t \in table : t[2] <= r}
    IN IF net.dmsradius > 0 /\ radius <= net.dmsradius
       THEN {t \in within(net.dmsradius) : ~(t[2] > radius)}
       ELSE within(radius)

\* Numbers are fractions num / den; den = 0 is NaN.
Num(n) == [num |-> n, den |-> 1]

NaN == [num |-> 0, den |-> 0]

isna(v) == v.den = 0

\* The weight of a value at distance d: 1 under "flat", 1 - d / radius
\* under "linear"; as a numerator over the denominator radius.
DecayWeight(decay, d, radius) == IF decay = "flat" THEN radius ELSE radius - d

\* Network.aggregate(distance, type="sum", decay, name): one value per node
\* of the network, indexed by node id.
aggregate(net, distance, decay, name) ==
    [n \in DOMAIN net.nodes_df |->
        LET near == InRange(net, n, distance)
            attached == net.vars[name]
            term(k) == IF \E t \in near : t[1] = attached[k].node
                       THEN LET t == CHOOSE t \in near : t[1] = attached[k].node
                            IN attached[k].value * DecayWeight(decay, t[2], distance)
                       ELSE 0
        IN [num |-> SumSeq([k \in DOMAIN attached |-> term(k)]), den |-> distance]]

\* ------------------------------------------------------------------ pandas
\* DataFrame.round(0) on one value: to the nearest whole number, halves to
\* the even neighbour.
Round(v) ==
    IF isna(v) THEN v
    ELSE LET q == v.num \div v.den
             r == v.num % v.den
         IN Num(IF 2 * r < v.den THEN q
                ELSE IF 2 * r > v.den THEN q + 1
                ELSE IF q % 2 = 0 THEN q ELSE q + 1)

\* A table: row labels, column names, and one record per row.  error is ""
\* for a table that was returned and names the exception otherwise.
Table(index, columns, rows) ==
    [error |-> "", index |-> index, columns |-> columns, rows |-> rows]

Raised(exception) ==
    [error |-> exception, index |-> <<>>, columns |-> <<>>, rows |-> <<>>]

\* The positions, from k on, of the rows without a missing value, in order.
RECURSIVE Kept(_, _)
Kept(rows, k) ==
    IF k > Len(rows) THEN <<>>
    ELSE (IF \A v \in DOMAIN rows[k].vals : ~isna(rows[k].vals[v]) THEN <<k>> ELSE <<>>)
         \o Kept(rows, k + 1)

\* ------------------------------------------------------------- calc_access
\* One call of a method of the network, as the call log records it.
Call(op, name, distance, decay) ==
    [op |-> op, name |-> name, distance |-> distance, decay |-> decay]

\* The centroids of a geodataframe's geometries.
centroid(frame) == [k \in DOMAIN frame |-> frame[k].geometry]

\* Variant: the precomputation runs whatever the flag says.
PrecomputeAlways(st, precomp, distance) ==
    [network |-> precompute(st.network, distance),
     log |-> Append(st.log, Call("precompute", "", distance, ""))]

\* if precompute: network.precompute(distance).  st is [network, log].
PrecomputeStep(st, precomp, distance) ==
    IF precomp
    THEN [network |-> precompute(st.network, distance),
          log |-> Append(st.log, Call("precompute", "", distance, ""))]
    ELSE st

\* Variant: the decay is not passed on, so the aggregation runs with
\* pandana's default, "linear".
AggregateCallDefaultDecay(net, distance, decay, variable) ==
    aggregate(net, distance, "linear", variable)

\* network.aggregate(distance, type="sum", decay=decay, name=variable)
AggregateCall(net, distance, decay, variable) == aggregate(net, distance, decay, variable)

\* The loop over the requested variables: attach, aggregate, append.
\* st is [network, access, log].
RECURSIVE VariableLoop(_, _, _, _, _, _)
VariableLoop(st, frame, ids, variables, distance, decay) ==
    IF variables = <<>> THEN st
    ELSE LET variable == Head(variables)
             net1 == set(st.network, ids, [k \in DOMAIN frame |-> frame[k][variable]], variable)
             access_pop == AggregateCall(net1, distance, decay, variable)
         IN VariableLoop(
                [network |-> net1,
                 access |-> Append(st.access, access_pop),
                 log |-> st.log \o <<Call("set", variable, 0, ""),
                                     Call("aggregate", variable, distance, decay)>>],
                frame, ids, Tail(variables), distance, decay)

\* pd.DataFrame(dict(zip(variables, access))): one column per variable,
\* indexed by the index the aggregates share.
\* Variant: the table is indexed by the positions of the variables.
AccessFrameByVariable(variables, access) ==
    LET index == [k \in DOMAIN variables |-> k]
    IN Table(index, variables,
             [n \in DOMAIN index |-> [v \in Range(variables) |-> access[1][n]]])

AccessFrame(variables, access) ==
    LET index == IF access = <<>> THEN <<>> ELSE [n \in DOMAIN access[1] |-> n]
        last(v) == CHOOSE k \in DOMAIN variables :
                       variables[k] = v /\ \A j \in DOMAIN variables : variables[j] = v => j <= k
    IN Table(index, variables,
             [n \in DOMAIN index |-> [v \in Range(variables) |-> access[last(v)][n]]])

\* access.round(0)
RoundFrame(t) ==
    [t EXCEPT !.rows = [n \in DOMAIN t.rows |-> [v \in DOMAIN t.rows[n] |-> Round(t.rows[n][v])]]]

\* geodataframe[["node_ids", geometry]].merge(access, right_index=True,
\* left_on="node_ids", how="left"): every input row, with the aggregates of
\* its node, or NaN where access has no such node.
\* Variant: the join pairs input row k with row k of access, not with the
\* row of its node.
MergeByPosition(frame, ids, access) ==
    LET vals(k) == [v \in Range(access.columns) |->
                       IF k \in DOMAIN access.rows THEN access.rows[k][v] ELSE NaN]
    IN Table([k \in DOMAIN frame |-> k],
             <<"node_ids", "geometry">> \o access.columns,
             [k \in DOMAIN frame |->
                 [node_ids |-> ids[k], geometry |-> frame[k].geometry, vals |-> vals(k)]])

Merge(frame, ids, access) ==
    LET at(n) == {k \in DOMAIN access.index : access.index[k] = n}
        vals(n) == [v \in Range(access.columns) |->
                       IF at(n) = {} THEN NaN ELSE access.rows[CHOOSE k \in at(n) : TRUE][v]]
    IN Table([k \in DOMAIN frame |-> k],
             <<"node_ids", "geometry">> \o access.columns,
             [k \in DOMAIN frame |->
                 [node_ids |-> ids[k], geometry |-> frame[k].geometry, vals |-> vals(ids[k])]])

\* DataFrame.dropna(): the rows without a missing value.
dropna(t) ==
    LET keep == Kept(t.rows, 1)
    IN Table([k \in DOMAIN keep |-> t.index[keep[k]]], t.columns,
             [k \in DOMAIN keep |-> t.rows[keep[k]]])

\* The value a parameter takes: the default when the call leaves it out.
Bound(arg, default) == IF arg = "<omitted>" THEN default ELSE arg

\* calc_access(geodataframe, network, distance, decay, variables,
\* precompute, return_node_data), with ids the node ids the nearest-node
\* lookup returns.  Gives the network and the node_ids column as the call
\* leaves them, the calls made on the network, and what is returned.
calc_access(frame, net, distance, decayArg, variables, precomp, return_node_data, ids) ==
    LET decay == Bound(decayArg, "linear")
        pre == PrecomputeStep([network |-> net, log |-> <<>>], precomp, distance)
        net1 == pre.network
        log1 == Append(pre.log, Call("get_node_ids", "", 0, ""))
        done == VariableLoop([network |-> net1, access |-> <<>>, log |-> log1],
                             frame, ids, variables.names, distance, decay)
        access == AccessFrame(variables.names, done.access)
    IN IF Falsy(decay)
       THEN [network |-> net, node_ids |-> <<>>, log |-> <<>>, access |-> Raised(""),
             result |-> Raised("Exception")]
       ELSE IF variables.none
       THEN [network |-> net1, node_ids |-> ids, log |-> log1, access |-> Raised(""),
             result |-> Raised("TypeError")]
       ELSE [network |-> done.network, node_ids |-> ids, log |-> done.log,
             access |-> access,
             result |-> IF return_node_data THEN RoundFrame(access)
                        ELSE dropna(Merge(frame, ids, access))]

\* ------------------------------------------------------------------ inputs
\* Geometries are points; a point's centroid is the point.
\* x = 0 is node 1, x = 1 lies midway between nodes 1 and 2, and the last
\* point is the last node.
Points == {[x |-> x, y |-> 0] : x \in {0, 1, 2 * (MaxNodes - 1)}}

\* The demographic columns: a (a total) and b (a group within it).
Counts == {[a |-> 1, b |-> 0], [a |-> 2, b |-> 1]}

GeoRows == {[geometry |-> p, a |-> c.a, b |-> c.b] : p \in Points, c \in Counts}

GeoFrames == SeqsUpTo(GeoRows, 1, MaxGeoms)

Distances == {1, 2}

DecayArgs == {"<omitted>", "None", "", "linear", "flat"}

VariableArgs ==
    {[none |-> TRUE, names |-> <<>>]}
    \cup {[none |-> FALSE, names |-> s] : s \in {<<"a">>, <<"a", "b">>}}

\* -------------------------------------------------------------------- state
VARIABLES
    network,    \* the network the calls are made against
    gdf,        \* the geodataframe last passed in
    node_ids_col, \* its node_ids column after the call
    args,       \* the arguments of the last call
    log,        \* the calls the last operation made on its collaborators
    access,     \* calc_access: the table of aggregates before reshaping
    result,     \* the table the last operation returned, or what it raised
    made,       \* the network the last operation returned
    ncalls      \* operations run so far

vars == <<network, gdf, node_ids_col, args, log, access, result, made, ncalls>>

\* No network.
NoNetwork == Network(<<>>, {}, <<>>, FALSE)

NoArgs ==
    [op |-> "", distance |-> 0, decay |-> "", variables |-> <<>>,
     precompute |-> FALSE, return_node_data |-> FALSE, network |-> NoNetwork]

\* Before the first call: the network is given, nothing has been called.
InitWith(networks) ==
    /\ network \in networks
    /\ gdf = <<>>
    /\ node_ids_col = <<>>
    /\ args = NoArgs
    /\ log = <<>>
    /\ access = Raised("")
    /\ result = Raised("")
    /\ made = NoNetwork
    /\ ncalls = 0

\* The network calc_access is given: new, or already precomputed by its
\* holder.
InitAccess ==
    InitWith(NetworksWith({<<"distance">>})
             \cup {precompute(net, 2) : net \in NetworksWith({<<"distance">>})})

CalcAccessOver(frames, variableArgs, limit) ==
    /\ ncalls < limit
    /\ \E frame \in frames :
         \E ids \in get_node_ids(network, centroid(frame)) :
          \E distance \in Distances, decayArg \in DecayArgs,
             variables \in variableArgs, precomp \in BOOLEAN, rnd \in BOOLEAN :
          \E out \in {calc_access(frame, network, distance, decayArg, variables,
                                  precomp, rnd, ids)} :
               /\ network' = out.network
               /\ gdf' = frame
               /\ node_ids_col' = out.node_ids
               /\ args' = [op |-> "calc_access", distance |-> distance, decay |-> decayArg,
                           variables |-> variables.names, precompute |-> precomp,
                           return_node_data |-> rnd, network |-> network]
               /\ log' = out.log
               /\ access' = out.access
               /\ result' = out.result
               /\ ncalls' = ncalls + 1
               /\ UNCHANGED made

\* One call, over every small geodataframe and every list of variables.
CalcAccess == CalcAccessOver(GeoFrames, {v \in VariableArgs : ~v.none}, 1)

NextAccess == CalcAccess

SpecAccess == InitAccess /\ [][NextAccess]_vars

\* Several calls against one network, each over a one-row geodataframe
\* and the variable a, or no list of variables at all.
FewFrames == {f \in GeoFrames : Len(f) = 1 /\ f[1].a = 1 /\ f[1].geometry.x # 1}

CalcAccessAgain ==
    CalcAccessOver(FewFrames, {v \in VariableArgs : v.none \/ v.names = <<"a">>}, MaxCalls)

NextCalls == CalcAccessAgain

InitCalls ==
    /\ InitAccess
    /\ Cardinality(network.edges_df) = MaxNodes

SpecCalls == InitCalls /\ [][NextCalls]_vars

\* ------------------------------------------------ compute_travel_cost_matrix
\* Network.shortest_path_lengths(nodes_a, nodes_b): the cost of each pair
\* (nodes_a[k], nodes_b[k]); the two lists must be equally long.
shortest_path_lengths(net, nodes_a, nodes_b) ==
    IF Len(nodes_a) # Len(nodes_b)
    THEN [error |-> "ValueError", lengths |-> <<>>]
    ELSE [error |-> "",
          lengths |-> [k \in DOMAIN nodes_a |-> ShortestCost(net, nodes_a[k], nodes_b[k])]]

\* [origin] * len(origins)
Repeat(v, n) == [k \in 1..n |-> v]

\* ods[key] = val on a dict kept as a sequence of entries in insertion order.
DictSet(d, key, val) ==
    IF \E k \in DOMAIN d : d[k].key = key
    THEN [k \in DOMAIN d |-> IF d[k].key = key THEN [key |-> key, val |-> val] ELSE d[k]]
    ELSE Append(d, [key |-> key, val |-> val])

\* [origin] * len(origins): the list one origin is queried with.
QueryOrigins(origin, origins, destinations) == Repeat(origin, Len(origins))

\* The loop over origins["osm_ids"]: one cost query per origin, stored under
\* the origin's node id written as a string.  st is [ods, log, error].
RECURSIVE OriginLoop(_, _, _, _, _, _)
OriginLoop(st, net, origins, destinations, oids, dids) ==
    IF oids = <<>> \/ st.error # "" THEN st
    ELSE LET origin == Head(oids)
             nodes_a == QueryOrigins(origin, origins, destinations)
             got == shortest_path_lengths(net, nodes_a, dids)
             call == [op |-> "shortest_path_lengths", nodes_a |-> nodes_a, nodes_b |-> dids]
         IN OriginLoop(
                [ods |-> IF got.error = "" THEN DictSet(st.ods, ToString(origin), got.lengths)
                         ELSE st.ods,
                 log |-> Append(st.log, call),
                 error |-> got.error],
                net, origins, destinations, Tail(oids), dids)

\* pd.DataFrame(ods, index=index): one column per key of the dict, one row
\* per entry of the index; every list must be as long as the index.
DictFrame(ods, index) ==
    IF \E c \in DOMAIN ods : Len(ods[c].val) # Len(index)
    THEN Raised("ValueError")
    ELSE Table(index, [c \in DOMAIN ods |-> ods[c].key],
               [r \in DOMAIN index |-> [c \in DOMAIN ods |-> ods[c].val[r]]])

\* df.columns = labels: as many labels as there are columns.
SetColumns(df, labels) ==
    IF df.error # "" THEN df
    ELSE IF Len(labels) # Len(df.columns) THEN Raised("ValueError")
    ELSE [df EXCEPT !.columns = labels]

\* pd.DataFrame(ods, index=origins), the index given as a whole dataframe:
\* pandas either refuses a two-dimensional index or labels each row with the
\* origin's record, depending on its version.
FrameIndexed(ods, origins, oids, refuses) ==
    IF refuses THEN Raised("ValueError")
    ELSE DictFrame(ods, [k \in DOMAIN origins |->
                            [geometry |-> origins[k].geometry, name |-> origins[k].name,
                             osm_ids |-> oids[k]]])

\* compute_travel_cost_matrix(origins, destinations, network, reindex_name),
\* with oids and dids the node ids the two nearest-node lookups return.
compute_travel_cost_matrix(origins, destinations, net, reindex_name, oids, dids, refuses) ==
    LET done == OriginLoop([ods |-> <<>>, log |-> <<>>, error |-> ""],
                           net, origins, destinations, oids, dids)
        ods == done.ods
    IN [log |-> done.log,
        ods |-> ods,
        result |->
            IF done.error # "" THEN Raised(done.error)
            ELSE IF ~Falsy(reindex_name)
            THEN LET df == DictFrame(ods, [k \in DOMAIN origins |-> origins[k][reindex_name]])
                 IN SetColumns(df, df.index)
            ELSE FrameIndexed(ods, origins, oids, refuses)]

\* Origin k is named 10 + k and destination k is named 20 + k.
Places(base) ==
    {[k \in DOMAIN pts |-> [geometry |-> pts[k], name |-> base + k]] :
        pts \in SeqsUpTo(Points, 1, MaxGeoms)}

InitMatrix == InitWith(Networks)

ComputeTravelCostMatrix ==
    /\ ncalls < 1
    /\ \E origins \in Places(10) :
         \E oids \in get_node_ids(network, centroid(origins)) :
          \E destinations \in Places(20) :
           \E dids \in get_node_ids(network, centroid(destinations)) :
            \E reindex_name \in {"None", "name"}, refuses \in BOOLEAN :
             \E out \in {compute_travel_cost_matrix(origins, destinations, network,
                                                 reindex_name, oids, dids, refuses)} :
               /\ gdf' = origins
               /\ node_ids_col' = oids
               /\ args' = [op |-> "compute_travel_cost_matrix",
                           destinations |-> destinations, destination_ids |-> dids,
                           reindex_name |-> reindex_name]
               /\ log' = out.log
               /\ result' = out.result
               /\ ncalls' = ncalls + 1
               /\ UNCHANGED <<network, access, made>>

NextMatrix == ComputeTravelCostMatrix

SpecMatrix == InitMatrix /\ [][NextMatrix]_vars

\* --------------------------------------------------------- get_osm_network
\* _reproject_osm_nodes(nodes_df, input_crs, output_crs): the same index,
\* every node's x and y taken from its reprojected point.
reproject_osm_nodes(nodes_df, input_crs, output_crs) ==
    [i \in DOMAIN nodes_df |-> to_crs(nodes_df[i], input_crs, output_crs)]

\* A geometry's extent is a box; a point's box has no width.
Box(minx, miny, maxx, maxy) == [minx |-> minx, miny |-> miny, maxx |-> maxx, maxy |-> maxy]

\* GeoDataFrame.to_crs on a column of geometries.
FrameToCrs(geoms, input_crs, output_crs) ==
    [k \in DOMAIN geoms |->
        LET lo == to_crs([x |-> geoms[k].minx, y |-> geoms[k].miny], input_crs, output_crs)
            hi == to_crs([x |-> geoms[k].maxx, y |-> geoms[k].maxy], input_crs, output_crs)
        IN Box(lo.x, lo.y, hi.x, hi.y)]

\* GeoDataFrame.buffer(distance)
buffer(geoms, distance) ==
    [k \in DOMAIN geoms |->
        Box(geoms[k].minx - distance, geoms[k].miny - distance,
            geoms[k].maxx + distance, geoms[k].maxy + distance)]

SetMax(S) == CHOOSE m \in S : \A x \in S : m >= x

\* GeoDataFrame.total_bounds: (minx, miny, maxx, maxy).
total_bounds(geoms) ==
    <<SetMin({geoms[k].minx : k \in DOMAIN geoms}),
      SetMin({geoms[k].miny : k \in DOMAIN geoms}),
      SetMax({geoms[k].maxx : k \in DOMAIN geoms}),
      SetMax({geoms[k].maxy : k \in DOMAIN geoms})>>

\* The bounds requested from OSM.
osm_bounds(geoms, crs, maxdist) ==
    IF is_geographic(crs)
    THEN LET utm == estimate_utm_crs
             buffered == buffer(FrameToCrs(geoms, crs, utm), maxdist)
         IN total_bounds(FrameToCrs(buffered, utm, "EPSG:4326"))
    ELSE total_bounds(geoms)

\* What an operation that builds a network gives back.
Built(error, net, calls) == [error |-> error, network |-> net, log |-> calls]

\* ua_network_from_bbox(bounds[1], bounds[0], bounds[3], bounds[2]): the
\* call, its parameters being lat_min, lng_min, lat_max, lng_max.
FetchCall(bounds) ==
    [op |-> "ua_network_from_bbox", lat_min |-> bounds[2], lng_min |-> bounds[1],
     lat_max |-> bounds[4], lng_max |-> bounds[3]]

\* Variant: the CRS is not asserted, so a geometry without one gets as far
\* as the test of crs.is_geographic.
get_osm_network_no_assert(geoms, crs, maxdist, output_crsArg, installed, fetched) ==
    LET output_crs == IF Falsy(output_crsArg) THEN crs ELSE output_crsArg
        nodes == reproject_osm_nodes(fetched.nodes, "EPSG:4326", output_crs)
        net == Network(nodes, fetched.edges, <<"distance">>, TRUE)
    IN IF ~installed THEN Built("ImportError", NoNetwork, <<>>)
       ELSE IF crs = "None" THEN Built("AttributeError", NoNetwork, <<>>)
       ELSE Built("", net, <<FetchCall(osm_bounds(geoms, crs, maxdist)), [op |-> "Network"]>>)

\* get_osm_network(geodataframe, maxdist, quiet, output_crs), where
\* installed says whether pandana and urbanaccess can be imported and
\* fetched is what the fetch answers.
get_osm_network(geoms, crs, maxdist, output_crsArg, installed, fetched) ==
    LET output_crs == IF Falsy(output_crsArg) THEN crs ELSE output_crsArg
        nodes == reproject_osm_nodes(fetched.nodes, "EPSG:4326", output_crs)
        net == Network(nodes, fetched.edges, <<"distance">>, TRUE)
    IN IF Falsy(crs) THEN Built("AssertionError", NoNetwork, <<>>)
       ELSE IF ~installed THEN Built("ImportError", NoNetwork, <<>>)
       ELSE Built("", net, <<FetchCall(osm_bounds(geoms, crs, maxdist)), [op |-> "Network"]>>)

\* Study areas: a few points, in any CRS or in none.
AreaPoints == {[x |-> x, y |-> y] : x \in {0, 1, 4}, y \in {0, 3}}

Areas ==
    {[k \in DOMAIN pts |-> Box(pts[k].x, pts[k].y, pts[k].x, pts[k].y)] :
        pts \in SeqsUpTo(AreaPoints, 1, MaxGeoms)}

\* What the fetch may answer: nodes in EPSG:4326 and edges with their
\* distance among other columns.
Fetched == {[nodes |-> [i \in NodeIds |-> NodePos(i)], edges |-> E] : E \in EdgeSets}

GetOsmNetwork ==
    /\ ncalls < 1
    /\ \E geoms \in Areas, crs \in CRSs \cup {"None"}, maxdist \in {1, 3},
          output_crsArg \in {"None", "EPSG:3857"}, installed \in BOOLEAN,
          fetched \in Fetched :
          \E out \in {get_osm_network(geoms, crs, maxdist, output_crsArg, installed, fetched)} :
               /\ gdf' = geoms
               /\ args' = [op |-> "get_osm_network", crs |-> crs, maxdist |-> maxdist,
                           output_crs |-> output_crsArg, installed |-> installed,
                           fetched |-> fetched]
               /\ log' = out.log
               /\ result' = Raised(out.error)
               /\ made' = out.network
               /\ ncalls' = ncalls + 1
               /\ UNCHANGED <<network, node_ids_col, access>>

NextOsm == GetOsmNetwork

SpecOsm == InitWith({NoNetwork}) /\ [][NextOsm]_vars

\* --------------------------------------------------------- project_network
\* Variant: twoway is not passed on, so the network is rebuilt two-way.
project_network_twoway(net, output_crs, input_crsArg) ==
    LET input_crs == Bound(input_crsArg, "EPSG:4326")
        nodes == reproject_osm_nodes(net.nodes_df, input_crs, output_crs)
    IN IF Falsy(output_crs) THEN Built("AssertionError", NoNetwork, <<>>)
       ELSE Built("", Network(nodes, net.edges_df, net.impedance_names, TRUE),
                  <<[op |-> "Network"]>>)

\* project_network(network, output_crs, input_crs)
project_network(net, output_crs, input_crsArg) ==
    LET input_crs == Bound(input_crsArg, "EPSG:4326")
        nodes == reproject_osm_nodes(net.nodes_df, input_crs, output_crs)
    IN IF Falsy(output_crs) THEN Built("AssertionError", NoNetwork, <<>>)
       ELSE Built("", Network(nodes, net.edges_df, net.impedance_names, net.twoway),
                  <<[op |-> "Network"]>>)

\* Networks as a caller may hold them: new, or already used for a query.
UsedNetworks ==
    Networks \cup {set(precompute(net, 1), <<1>>, <<1>>, "a") : net \in Networks}

ProjectNetwork ==
    /\ ncalls < 1
    /\ \E output_crs \in CRSs \cup {"None"}, input_crsArg \in CRSs \cup {"<omitted>"} :
          \E out \in {project_network(network, output_crs, input_crsArg)} :
               /\ args' = [op |-> "project_network", output_crs |-> output_crs,
                           input_crs |-> input_crsArg, network |-> network]
               /\ log' = out.log
               /\ result' = Raised(out.error)
               /\ made' = out.network
               /\ ncalls' = ncalls + 1
               /\ UNCHANGED <<network, gdf, node_ids_col, access>>

NextProject == ProjectNetwork

SpecProject == InitWith(UsedNetworks) /\ [][NextProject]_vars

\* ============================================================ calc_access
IsAccessCall == args.op = "calc_access"

Returned == result.error = ""

LogOps(ops) == {k \in DOMAIN log : log[k].op \in ops}

\* The plain sum of a variable over the input rows whose snapped node lies
\* within the search distance of node n.
PlainSum(variable, n) ==
    LET reach == [k \in DOMAIN gdf |->
                    IF ShortestCost(network, n, node_ids_col[k]) <= args.distance
                    THEN gdf[k][variable] ELSE 0]
    IN SumSeq(reach)

\* C2 as stated: with return_node_data=True the index of the returned table
\* is exactly the set of node ids the input geometries were snapped to.
C2_IndexIsSnappedNodes ==
    (IsAccessCall /\ args.return_node_data /\ Returned)
        => Range(result.index) = Range(node_ids_col)

\* C2 as amended: with return_node_data=True the returned table has exactly
\* one row for every node id of the network, in the network's order; so it
\* holds every node an input geometry was snapped to, and also the nodes
\* none was snapped to.
C2_IndexIsAllNetworkNodes ==
    (IsAccessCall /\ args.return_node_data /\ Returned)
        => /\ result.index = node_ids(network)
           /\ Range(node_ids_col) \subseteq Range(result.index)

C2_Witness ==
    /\ IsAccessCall /\ args.return_node_data /\ Returned
    /\ Range(node_ids_col) # Range(result.index)
    /\ Len(gdf) = 2

\* C4: under "flat" decay the aggregate computed for every requested
\* variable and every network node is the plain sum of the variable over
\* the input geometries whose snapped node is within the search distance.
C4_FlatIsPlainSum ==
    (IsAccessCall /\ args.decay = "flat" /\ Returned)
        => \A v \in Range(args.variables) : \A n \in DOMAIN network.nodes_df :
              /\ n \in DOMAIN access.rows
              /\ ~isna(access.rows[n][v])
              /\ access.rows[n][v].num = PlainSum(v, n) * access.rows[n][v].den

C4_Witness ==
    /\ IsAccessCall /\ args.decay = "flat" /\ Returned
    /\ Len(gdf) = 2 /\ node_ids_col[1] = node_ids_col[2]
    /\ ~args.precompute /\ args.distance < network.dmsradius
    /\ \E n \in DOMAIN network.nodes_df :
          /\ n # node_ids_col[1]
          /\ PlainSum("a", n) = gdf[1].a + gdf[2].a
          /\ access.rows[n]["a"].num = PlainSum("a", n) * access.rows[n]["a"].den

\* C6 as stated: a call that specifies no decay function, whether the
\* argument is left out or passed as None or empty, raises, and has by then
\* made no precompute, attachment or aggregation.
C6_NoDecayRaises ==
    (IsAccessCall /\ args.decay \in {"<omitted>", "None", ""})
        => /\ ~Returned
           /\ LogOps({"precompute", "set", "aggregate"}) = {}

\* C6 as amended: a call whose decay argument is passed as None or empty
\* raises the explicit error, and has by then made no call on the network;
\* a call that leaves the argument out runs with "linear" and does not
\* raise that error.
C6_EmptyDecayRaises ==
    /\ (IsAccessCall /\ args.decay \in {"None", ""})
          => /\ result.error = "Exception"
             /\ log = <<>>
             /\ network = args.network
    /\ (IsAccessCall /\ args.decay = "<omitted>")
          => /\ result.error # "Exception"
             /\ \A k \in LogOps({"aggregate"}) : log[k].decay = "linear"

C6_Witness ==
    /\ IsAccessCall /\ args.decay = "" /\ args.precompute
    /\ args.variables # <<>>
    /\ result.error = "Exception" /\ log = <<>>

\* The aggregates of node n, when the table of aggregates has them.
HasAggregate(n) ==
    \E k \in DOMAIN access.index :
        access.index[k] = n /\ \A v \in Range(args.variables) : ~isna(access.rows[k][v])

\* C9: with return_node_data=False there is at most one returned row per
\* input geometry, each row carries for every requested variable the
\* aggregate computed at the node the geometry was snapped to, and a
\* geometry is missing exactly when that aggregate is absent for some
\* requested variable.
C9_RowsAreInputGeometries ==
    (IsAccessCall /\ ~args.return_node_data /\ Returned)
        => /\ \A j, k \in DOMAIN result.index : j < k => result.index[j] < result.index[k]
           /\ \A k \in DOMAIN result.index :
                 LET i == result.index[k]
                     row == result.rows[k]
                 IN /\ i \in DOMAIN gdf
                    /\ row.geometry = gdf[i].geometry
                    /\ row.node_ids = node_ids_col[i]
                    /\ \A v \in Range(args.variables) :
                          \E m \in DOMAIN access.index :
                             /\ access.index[m] = node_ids_col[i]
                             /\ row.vals[v] = access.rows[m][v]
           /\ \A i \in DOMAIN gdf :
                 (i \notin Range(result.index)) <=> ~HasAggregate(node_ids_col[i])

C9_Witness ==
    /\ IsAccessCall /\ ~args.return_node_data /\ Returned
    /\ Len(gdf) = 2 /\ Len(result.rows) = 2
    /\ node_ids_col[1] > node_ids_col[2]
    /\ args.variables = <<"a", "b">>
    /\ result.rows[1].vals # result.rows[2].vals

\* C10 as stated: each call with precompute=True invokes the precomputation
\* exactly once, with the call's distance, before the call's first
\* attachment or aggregation; each call with precompute=False never does.
C10_PrecomputeOncePerCall ==
    IsAccessCall
        => IF args.precompute
           THEN /\ Cardinality(LogOps({"precompute"})) = 1
                /\ \A k \in LogOps({"precompute"}) :
                      /\ log[k].distance = args.distance
                      /\ \A j \in LogOps({"set", "aggregate"}) : k < j
           ELSE LogOps({"precompute"}) = {}

\* C10 as amended: each call with precompute=True and a decay function
\* invokes the precomputation exactly once, with the call's distance,
\* before the call's first attachment or aggregation; a call with
\* precompute=False, or with no decay function, never invokes it.
C10_PrecomputeOncePerValidCall ==
    IsAccessCall
        => IF args.precompute /\ ~Falsy(Bound(args.decay, "linear"))
           THEN /\ Cardinality(LogOps({"precompute"})) = 1
                /\ \A k \in LogOps({"precompute"}) :
                      /\ log[k].distance = args.distance
                      /\ \A j \in LogOps({"set", "aggregate"}) : k < j
                /\ network.dmsradius = args.distance
           ELSE LogOps({"precompute"}) = {}

C10_Witness ==
    /\ IsAccessCall /\ ncalls = 2
    /\ args.precompute /\ args.distance = 1
    /\ LogOps({"precompute"}) = {1}
    /\ LogOps({"set", "aggregate"}) # {}

\* ============================================== compute_travel_cost_matrix
IsMatrixCall == args.op = "compute_travel_cost_matrix"

\* C1: the returned table has the origins as rows and the destinations as
\* columns, and the entry at row i, column j is the shortest-path cost from
\* the node of origin i to the node of destination j, with and without
\* reindex_name.
C1_RowsOriginsColumnsDestinations ==
    (IsMatrixCall /\ Returned)
        => /\ Len(result.index) = Len(gdf)
           /\ Len(result.columns) = Len(args.destinations)
           /\ \A i \in DOMAIN gdf : \A j \in DOMAIN args.destinations :
                 /\ i \in DOMAIN result.rows
                 /\ j \in DOMAIN result.rows[i]
                 /\ result.rows[i][j]
                      = ShortestCost(network, node_ids_col[i], args.destination_ids[j])

\* C8: for any origins and destinations the call completes without error,
\* issues for each origin one cost query covering every destination node,
\* and returns a table with one row per origin and one column per
\* destination.
C8_CompletesRectangular ==
    IsMatrixCall
        => /\ Returned
           /\ Len(result.index) = Len(gdf)
           /\ Len(result.rows) = Len(gdf)
           /\ Len(result.columns) = Len(args.destinations)
           /\ \A r \in DOMAIN result.rows : Len(result.rows[r]) = Len(args.destinations)
           /\ Len(log) = Len(gdf)
           /\ \A k \in DOMAIN log :
                 /\ log[k].nodes_b = args.destination_ids
                 /\ Range(log[k].nodes_a) = {node_ids_col[k]}

\* ========================================================= get_osm_network
IsOsmCall == args.op = "get_osm_network"

Fetches == {k \in DOMAIN log : log[k].op = "ua_network_from_bbox"}

\* The study area's bounds in EPSG:4326, enlarged by maxdist.
EnlargedArea ==
    LET b == total_bounds(FrameToCrs(gdf, args.crs, "EPSG:4326"))
    IN <<b[1] - args.maxdist, b[2] - args.maxdist, b[3] + args.maxdist, b[4] + args.maxdist>>

\* C3: for a study area with a CRS, geographic or projected, the box passed
\* to the fetch is in geographic degrees, in the order south, west, north,
\* east, and encloses the study area's bounds enlarged by maxdist.
C3_FetchBoxEnclosesArea ==
    (IsOsmCall /\ args.crs # "None")
        => \A k \in Fetches :
              /\ log[k].lat_min <= EnlargedArea[2]
              /\ log[k].lng_min <= EnlargedArea[1]
              /\ log[k].lat_max >= EnlargedArea[4]
              /\ log[k].lng_max >= EnlargedArea[3]

\* C5: a geometry without a CRS raises an assertion error, and by then
\* neither the fetch nor the construction of a network has been called.
C5_NoCrsRaisesFirst ==
    (IsOsmCall /\ args.crs = "None")
        => /\ result.error = "AssertionError"
           /\ log = <<>>
           /\ made = NoNetwork

C5_Witness ==
    /\ IsOsmCall /\ args.crs = "None" /\ ~args.installed
    /\ result.error = "AssertionError" /\ log = <<>>

\* ========================================================= project_network
IsProjectCall == args.op = "project_network"

\* C7: with an output CRS, project_network returns a new network with the
\* node ids, edge endpoints, edge weights under every impedance name and
\* directedness flag of the input, its node coordinates reprojected; the
\* input network is as it was.
C7_ProjectKeepsGraph ==
    (IsProjectCall /\ ~Falsy(args.output_crs))
        => /\ Returned
           /\ DOMAIN made.nodes_df = DOMAIN network.nodes_df
           /\ {[from |-> e.from, to |-> e.to] : e \in made.edges_df}
                = {[from |-> e.from, to |-> e.to] : e \in network.edges_df}
           /\ made.edges_df = network.edges_df
           /\ made.impedance_names = network.impedance_names
           /\ made.twoway = network.twoway
           /\ \A i \in DOMAIN network.nodes_df :
                 made.nodes_df[i] = to_crs(network.nodes_df[i],
                                           Bound(args.input_crs, "EPSG:4326"), args.output_crs)
           /\ network = args.network

C7_Witness ==
    /\ IsProjectCall /\ Returned
    /\ args.output_crs = "EPSG:32611" /\ args.input_crs = "<omitted>"
    /\ ~network.twoway /\ ~made.twoway
    /\ Len(network.impedance_names) = 2
    /\ made.nodes_df # network.nodes_df
    /\ network.variable_names # {}

====
